---- MODULE Spec2Model ----
(***************************************************************************)
(* reduce-tree.py: prepare_tree resets the timestamps of the C sources of  *)
(* a tree, a build then reads some of them, and collect_tree copies the    *)
(* files whose access time is newer than their modification time into a    *)
(* reduced tree (parent_copy).                                             *)
(*                                                                         *)
(* A file name is a tuple of characters, a path a tuple of names (an       *)
(* absolute, normalised path; <<>> is the directory the tool is started    *)
(* in).  The filesystem is a function from paths to entries.               *)
(***************************************************************************)
EXTENDS Integers, Sequences, FiniteSets, TLC

VARIABLES
    fs,        \* the filesystem: path -> [kind, atime, mtime, content, mode]
    clock,     \* the wall clock, time.time()
    listRev,   \* the order os.listdir happens to return names in
    out,       \* what the last invocation printed (pieces of the line), <<>> if nothing
    args,      \* the parsed arguments of the last invocation
    pre,       \* the filesystem as the last invocation found it
    log,       \* the copies the last invocation completed: <<[src, target], ...>>
    status,    \* "init", "usage" (failed validation), "ok", "failed" (walk aborted)
    failPath,  \* the path whose operation made the last invocation fail, <<>> if none
    lastOp,    \* "init", "run" (an invocation of the tool), "read" (a build step)
    runs,      \* number of invocations of the tool so far
    prepT,     \* instant of the last completed prepare still in effect, -1 if none
    U          \* files the build has read since that prepare

vars == <<fs, clock, listRev, out, args, pre, log, status, failPath, lastOp, runs, prepT, U>>

\* ------------------------------------------------------------------ bounds
MaxRuns == 2

\* ------------------------------------------------------------------ names
SrcName == <<"s">>
DstName == <<"d">>
MissingName == <<"x">>
NoArg == <<>>

main_c == <<"m", "a", "i", "n", ".", "c">>
util_h == <<"u", "t", "i", "l", ".", "h">>
readme == <<"R", "E", "A", "D", "M", "E", ".", "m", "d">>
link_c == <<"l", "n", "k", ".", "c">>
dir_a == <<"a">>
dir_b == <<"b">>
c_c == <<"c", ".", "c">>

\* The order names are listed in (or its reverse, see listRev).
NameOrder == <<readme, dir_a, dir_b, c_c, link_c, main_c, util_h, SrcName, DstName>>

Offset == 48 * 3600
DirMode == 493
T0 == 2 * Offset

Reverse(s) == [i \in 1..Len(s) |-> s[Len(s) + 1 - i]]

\* ------------------------------------------------------------------ os.path
endswith(name, suf) ==
    /\ Len(name) >= Len(suf)
    /\ SubSeq(name, Len(name) - Len(suf) + 1, Len(name)) = suf

IsCSource(name) == endswith(name, <<".", "c">>) \/ endswith(name, <<".", "h">>)

exists(f, p) == p \in DOMAIN f
isdir(f, p) == p \in DOMAIN f /\ f[p].kind \in {"dir", "symlinkdir"}
islink(f, p) == p \in DOMAIN f /\ f[p].kind \in {"symlink", "symlinkdir"}
getatime(f, p) == f[p].atime
getmtime(f, p) == f[p].mtime

abspath(arg) == <<arg>>
dirname(p) == SubSeq(p, 1, Len(p) - 1)
basename(p) == p[Len(p)]

RECURSIVE CommonLen(_, _)
CommonLen(p, q) ==
    IF p # <<>> /\ q # <<>> /\ Head(p) = Head(q)
    THEN 1 + CommonLen(Tail(p), Tail(q))
    ELSE 0

relpath(path, start) ==
    LET i == CommonLen(start, path)
        rel == [k \in 1..(Len(start) - i) |-> <<".", ".">>] \o SubSeq(path, i + 1, Len(path))
    IN IF rel = <<>> THEN << <<".">> >> ELSE rel

\* ------------------------------------------------------------------ os.walk
listdir(f, d, rev) ==
    LET names == SelectSeq(NameOrder, LAMBDA n: Append(d, n) \in DOMAIN f)
    IN IF rev THEN Reverse(names) ELSE names

RECURSIVE walk(_, _, _)
RECURSIVE walkEach(_, _, _, _)
walk(f, top, rev) ==
    IF ~isdir(f, top) THEN <<>>
    ELSE LET names == listdir(f, top, rev)
             dirs == SelectSeq(names, LAMBDA n: isdir(f, Append(top, n)))
             nondirs == SelectSeq(names, LAMBDA n: ~isdir(f, Append(top, n)))
         IN << [root |-> top, subdirs |-> dirs, files |-> nondirs] >>
            \o walkEach(f, top, dirs, rev)

walkEach(f, top, dirs, rev) ==
    IF dirs = <<>> THEN <<>>
    ELSE LET new_path == Append(top, Head(dirs))
         IN (IF ~islink(f, new_path) THEN walk(f, new_path, rev) ELSE <<>>)
            \o walkEach(f, top, Tail(dirs), rev)

\* The (root, f) pairs in the order the two nested for loops visit them.
RECURSIVE Visits(_)
Visits(w) ==
    IF w = <<>> THEN <<>>
    ELSE [i \in 1..Len(Head(w).files) |-> [root |-> Head(w).root, f |-> Head(w).files[i]]]
         \o Visits(Tail(w))

\* ------------------------------------------------------------------ filesystem
Dir(now) == [kind |-> "dir", atime |-> now, mtime |-> now, content |-> "", mode |-> DirMode]

\* A read of a file on a relatime mount: the access time is updated only if
\* it is earlier than the modification time.
Read(f, p, now) ==
    IF f[p].atime < f[p].mtime THEN [f EXCEPT ![p].atime = now] ELSE f

\* utime that leaves a file alone whose access time is already older than its
\* modification time.
utime_keepOlder(f, p, a_time, m_time) ==
    IF f[p].atime < f[p].mtime THEN f
    ELSE [f EXCEPT ![p].atime = a_time, ![p].mtime = m_time]

\* os.utime(path, (atime, mtime))
utime(f, p, a_time, m_time) == [f EXCEPT ![p].atime = a_time, ![p].mtime = m_time]

\* mkdir(2): a new entry in the parent directory, whose mtime it updates.
mkdir(f, p, mode, now) ==
    IF exists(f, p) THEN [ok |-> FALSE, fs |-> f, cause |-> "EEXIST"]
    ELSE IF ~exists(f, dirname(p)) THEN [ok |-> FALSE, fs |-> f, cause |-> "ENOENT"]
    ELSE IF ~isdir(f, dirname(p)) THEN [ok |-> FALSE, fs |-> f, cause |-> "ENOTDIR"]
    ELSE [ok |-> TRUE,
          fs |-> (p :> [Dir(now) EXCEPT !.mode = mode])
                 @@ [f EXCEPT ![dirname(p)].mtime = now],
          cause |-> ""]

\* os.makedirs(name, mode)
RECURSIVE makedirs(_, _, _, _)
makedirs(f, name, mode, now) ==
    LET head == dirname(name)
        r == IF Len(name) > 1 /\ ~exists(f, head)
             THEN makedirs(f, head, mode, now)
             ELSE [ok |-> TRUE, fs |-> f, cause |-> ""]
    IN IF r.ok \/ r.cause = "EEXIST" THEN mkdir(r.fs, name, mode, now) ELSE r

\* shutil.copyfile(src, target): the write half of copy2.
copyfile(f, src, target, now) ==
    IF src = target THEN [ok |-> FALSE, fs |-> f, cause |-> "same file"]
    ELSE IF ~exists(f, dirname(target)) THEN [ok |-> FALSE, fs |-> f, cause |-> "ENOENT"]
    ELSE IF ~isdir(f, dirname(target)) THEN [ok |-> FALSE, fs |-> f, cause |-> "ENOTDIR"]
    ELSE IF isdir(f, target) THEN [ok |-> FALSE, fs |-> f, cause |-> "EISDIR"]
    ELSE LET f1 == Read(f, src, now)
         IN [ok |-> TRUE,
             fs |-> IF exists(f1, target)
                    THEN [f1 EXCEPT ![target].content = f1[src].content,
                                    ![target].mtime = now]
                    ELSE (target :> [kind |-> "file", atime |-> now, mtime |-> now,
                                     content |-> f1[src].content, mode |-> 420])
                         @@ [f1 EXCEPT ![dirname(target)].mtime = now],
             cause |-> ""]

\* shutil.copymode in place of copystat (copy instead of copy2).
copystat_modeOnly(f, src, target) == [f EXCEPT ![target].mode = f[src].mode]

\* shutil.copystat(src, target): the metadata half of copy2.
copystat(f, src, target) ==
    [f EXCEPT ![target].atime = f[src].atime,
              ![target].mtime = f[src].mtime,
              ![target].mode = f[src].mode]

\* shutil.move in place of copy2: the source is gone afterwards.
copy2_move(f, src, dst, now, fail) ==
    LET target == IF isdir(f, dst) THEN Append(dst, basename(src)) ELSE dst
        r == IF fail = "copyfile"
             THEN [ok |-> FALSE, fs |-> f, cause |-> "EACCES"]
             ELSE copyfile(f, src, target, now)
        g == copystat(r.fs, src, target)
    IN IF ~r.ok THEN [ok |-> FALSE, fs |-> r.fs, target |-> target, cause |-> r.cause]
       ELSE IF fail = "copystat"
       THEN [ok |-> FALSE, fs |-> r.fs, target |-> target, cause |-> "EPERM"]
       ELSE [ok |-> TRUE, fs |-> [q \in DOMAIN g \ {src} |-> g[q]], target |-> target,
             cause |-> ""]

\* shutil.copy2(src, dst); fail names the step an I/O error strikes at, if any.
copy2(f, src, dst, now, fail) ==
    LET target == IF isdir(f, dst) THEN Append(dst, basename(src)) ELSE dst
        r == IF fail = "copyfile"
             THEN [ok |-> FALSE, fs |-> f, cause |-> "EACCES"]
             ELSE copyfile(f, src, target, now)
    IN IF ~r.ok THEN [ok |-> FALSE, fs |-> r.fs, target |-> target, cause |-> r.cause]
       ELSE IF fail = "copystat"
       THEN [ok |-> FALSE, fs |-> r.fs, target |-> target, cause |-> "EPERM"]
       ELSE [ok |-> TRUE, fs |-> copystat(r.fs, src, target), target |-> target,
             cause |-> ""]

\* ------------------------------------------------------------------ the tool
\* parent_copy whose message names the destination directory, not the source.
parent_copy_namesDst(f, src, dst, root, now, fail) ==
    LET parent_dirs == dirname(relpath(src, root))
        dst2 == IF parent_dirs # <<>> THEN dst \o parent_dirs ELSE dst
        m == IF parent_dirs # <<>> /\ ~exists(f, dst2)
             THEN makedirs(f, dst2, DirMode, now)
             ELSE [ok |-> TRUE, fs |-> f, cause |-> ""]
        c == IF m.ok THEN copy2(m.fs, src, dst2, now, fail)
             ELSE [ok |-> FALSE, fs |-> m.fs, target |-> dst2, cause |-> m.cause]
    IN IF c.ok THEN c
       ELSE [c EXCEPT !.cause = <<"Could not copy ", dst2, ": ", c.cause>>]

\* Copy the src file to the dst directory, keeping its directories below root.
parent_copy(f, src, dst, root, now, fail) ==
    LET parent_dirs == dirname(relpath(src, root))
        dst2 == IF parent_dirs # <<>> THEN dst \o parent_dirs ELSE dst
        m == IF parent_dirs # <<>> /\ ~exists(f, dst2)
             THEN makedirs(f, dst2, DirMode, now)
             ELSE [ok |-> TRUE, fs |-> f, cause |-> ""]
        c == IF m.ok THEN copy2(m.fs, src, dst2, now, fail)
             ELSE [ok |-> FALSE, fs |-> m.fs, target |-> dst2, cause |-> m.cause]
    IN IF c.ok THEN c
       ELSE [c EXCEPT !.cause = <<"Could not copy ", src, ": ", c.cause>>]

\* The for loops of collect_tree from visit i on; inj = [k, stage] makes the
\* copy of visit k fail at that stage.
RECURSIVE collectLoop(_, _, _, _, _, _, _, _)
collectLoop(f, v, i, src, dst, now, inj, done) ==
    IF i > Len(v) THEN [ok |-> TRUE, fs |-> f, log |-> done, cause |-> <<>>, at |-> <<>>]
    ELSE LET path == Append(v[i].root, v[i].f)
             fail == IF inj.k = i THEN inj.stage ELSE "none"
         IN IF ~IsCSource(v[i].f) THEN collectLoop(f, v, i + 1, src, dst, now, inj, done)
            ELSE IF islink(f, path) THEN collectLoop(f, v, i + 1, src, dst, now, inj, done)
            ELSE IF getatime(f, path) > getmtime(f, path)
            THEN LET c == parent_copy(f, path, dst, src, now, fail)
                 IN IF c.ok
                    THEN collectLoop(c.fs, v, i + 1, src, dst, now, inj,
                                     Append(done, [src |-> path, target |-> c.target]))
                    ELSE [ok |-> FALSE, fs |-> c.fs, log |-> done, cause |-> c.cause,
                          at |-> path]
            ELSE collectLoop(f, v, i + 1, src, dst, now, inj, done)

collect_tree(f, src, dst, rev, now, inj) ==
    LET srcA == abspath(src)
        dstA == abspath(dst)
    IN collectLoop(f, Visits(walk(f, srcA, rev)), 1, srcA, dstA, now, inj, <<>>)

\* The for loops of prepare_tree from visit i on; the utime of visit k fails.
RECURSIVE prepareLoop(_, _, _, _, _, _)
prepareLoop(f, v, i, a_time, m_time, k) ==
    IF i > Len(v) THEN [ok |-> TRUE, fs |-> f, cause |-> <<>>, at |-> <<>>]
    ELSE LET path == Append(v[i].root, v[i].f)
         IN IF IsCSource(v[i].f) /\ ~islink(f, path)
            THEN IF k = i
                 THEN [ok |-> FALSE, fs |-> f, cause |-> <<"EPERM">>, at |-> path]
                 ELSE prepareLoop(utime(f, path, a_time, m_time), v, i + 1,
                                  a_time, m_time, k)
            ELSE prepareLoop(f, v, i + 1, a_time, m_time, k)

\* prepare_tree with a 24 hour window.
prepare_tree_24h(f, src, rev, now, k) ==
    LET m_time == now
        a_time == m_time - 24 * 3600
    IN prepareLoop(f, Visits(walk(f, abspath(src), rev)), 1, a_time, m_time, k)

prepare_tree(f, src, rev, now, k) ==
    LET m_time == now
        a_time == m_time - Offset
    IN prepareLoop(f, Visits(walk(f, abspath(src), rev)), 1, a_time, m_time, k)

\* main without the check that exactly one mode is chosen.
validate_anyModes(f, a) ==
    IF a.prepare /\ a.src = NoArg
    THEN <<"You must use --src in conjunction with --prepare">>
    ELSE IF a.collect /\ (a.src = NoArg \/ a.dst = NoArg)
    THEN <<"You must use --src and --dst in conjunction with --collect">>
    ELSE IF ~exists(f, abspath(a.src))
    THEN <<"Directory ", a.src, " does not exist">>
    ELSE <<>>

\* main without the check that the source directory exists.
validate_srcUnchecked(f, a) ==
    IF (a.prepare /\ a.collect) \/ (~a.prepare /\ ~a.collect)
    THEN <<"You must use either --collect or --prepare">>
    ELSE IF a.prepare /\ a.src = NoArg
    THEN <<"You must use --src in conjunction with --prepare">>
    ELSE IF a.collect /\ (a.src = NoArg \/ a.dst = NoArg)
    THEN <<"You must use --src and --dst in conjunction with --collect">>
    ELSE <<>>

\* The checks main makes before it starts a walk: the message raised, <<>> if none.
validate(f, a) ==
    IF (a.prepare /\ a.collect) \/ (~a.prepare /\ ~a.collect)
    THEN <<"You must use either --collect or --prepare">>
    ELSE IF a.prepare /\ a.src = NoArg
    THEN <<"You must use --src in conjunction with --prepare">>
    ELSE IF a.collect /\ (a.src = NoArg \/ a.dst = NoArg)
    THEN <<"You must use --src and --dst in conjunction with --collect">>
    ELSE IF ~exists(f, abspath(a.src))
    THEN <<"Directory ", a.src, " does not exist">>
    ELSE <<>>

\* The handler under __main__: what is printed for a raised message.
Printed(msg) == <<"Error: ">> \o msg

Args == [prepare : BOOLEAN, collect : BOOLEAN,
         src : {NoArg, SrcName, MissingName}, dst : {NoArg, DstName}]

Stages == {"copyfile", "copystat"}

\* ------------------------------------------------------------------ actions
\* main(): validation fails, nothing is walked.
MainRejected(a) ==
    /\ runs < MaxRuns
    /\ validate(fs, a) # <<>>
    /\ out' = Printed(validate(fs, a))
    /\ args' = a
    /\ pre' = fs
    /\ log' = <<>>
    /\ status' = "usage"
    /\ failPath' = <<>>
    /\ lastOp' = "run"
    /\ runs' = runs + 1
    /\ clock' = clock + 1
    /\ UNCHANGED <<fs, listRev, prepT, U>>

\* main() with --prepare; the utime of visit k fails (k = 0: none does).
MainPrepare(a, k) ==
    /\ runs < MaxRuns
    /\ validate(fs, a) = <<>>
    /\ a.prepare
    /\ LET r == prepare_tree(fs, a.src, listRev, clock, k)
       IN /\ fs' = r.fs
          /\ out' = IF r.ok THEN <<>> ELSE Printed(<<"Could not prepare: ">> \o r.cause)
          /\ status' = IF r.ok THEN "ok" ELSE "failed"
          /\ failPath' = r.at
          /\ prepT' = IF r.ok THEN clock ELSE -1
    /\ U' = {}
    /\ args' = a
    /\ pre' = fs
    /\ log' = <<>>
    /\ lastOp' = "run"
    /\ runs' = runs + 1
    /\ clock' = clock + 1
    /\ UNCHANGED listRev

\* main() with --collect; inj makes the copy of one visit fail.
MainCollect(a, inj) ==
    /\ runs < MaxRuns
    /\ validate(fs, a) = <<>>
    /\ a.collect
    /\ LET r == collect_tree(fs, a.src, a.dst, listRev, clock, inj)
       IN /\ fs' = r.fs
          /\ out' = IF r.ok THEN <<>> ELSE Printed(<<"Could not collect: ">> \o r.cause)
          /\ status' = IF r.ok THEN "ok" ELSE "failed"
          /\ failPath' = r.at
          /\ log' = r.log
    /\ args' = a
    /\ pre' = fs
    /\ lastOp' = "run"
    /\ runs' = runs + 1
    /\ clock' = clock + 1
    /\ UNCHANGED <<listRev, prepT, U>>

\* The build reads a regular file of the source tree.
SrcFiles(f) ==
    {p \in DOMAIN f : Len(p) > 1 /\ p[1] = SrcName /\ f[p].kind = "file"}

\* The build: the compiler reads the files S of the source tree.
RECURSIVE ReadAll(_, _, _)
ReadAll(f, S, now) ==
    IF S = {} THEN f
    ELSE LET p == CHOOSE q \in S : TRUE
         IN ReadAll(Read(f, p, now), S \ {p}, now)

Build(S) ==
    /\ prepT >= 0
    /\ lastOp = "run"
    /\ S # {}
    /\ fs' = ReadAll(fs, S, clock)
    /\ U' = U \cup S
    /\ lastOp' = "read"
    /\ UNCHANGED <<clock, listRev, out, args, pre, log, status, failPath, runs, prepT>>

\* ------------------------------------------------------------------ initial states
File(a, c, md) ==
    [kind |-> "file", atime |-> a, mtime |-> T0, content |-> c, mode |-> md]

InitTrees ==
    {    (<<>> :> Dir(T0))
      @@ (<<SrcName>> :> Dir(T0))
      @@ (<<SrcName, main_c>> :> File(a1, "main", 420))
      @@ (<<SrcName, util_h>> :> File(a2, "util", 384))
      @@ (<<SrcName, readme>> :> File(T0 + 1, "readme", 420))
      @@ (<<SrcName, link_c>> :> [File(T0 + 1, "", 511) EXCEPT !.kind = "symlink"])
      @@ (<<SrcName, dir_a>> :> Dir(T0))
      @@ (<<SrcName, dir_a, dir_b>> :> Dir(T0))
      @@ (<<SrcName, dir_a, dir_b, c_c>> :> File(a3, "c", 420))
      @@ (IF d THEN <<DstName>> :> Dir(T0) ELSE <<>> :> Dir(T0))
      : a1 \in {T0, T0 + 1}, a2 \in {T0 + 1},
        a3 \in {T0 - 1, T0 + 1}, d \in BOOLEAN }

Init ==
    /\ fs \in InitTrees
    /\ clock = T0 + 2
    /\ listRev \in BOOLEAN
    /\ out = <<>>
    /\ args = [prepare |-> FALSE, collect |-> FALSE, src |-> NoArg, dst |-> NoArg]
    /\ pre = fs
    /\ log = <<>>
    /\ status = "init"
    /\ failPath = <<>>
    /\ lastOp = "init"
    /\ runs = 0
    /\ prepT = -1
    /\ U = {}

Next ==
    \/ \E a \in Args : MainRejected(a)
    \/ \E a \in Args, k \in 0..5 : MainPrepare(a, k)
    \/ \E a \in Args, k \in 0..5, st \in Stages : MainCollect(a, [k |-> k, stage |-> st])
    \/ \E S \in SUBSET SrcFiles(fs) : Build(S)

Spec == Init /\ [][Next]_vars

\* ------------------------------------------------------------------ vocabulary of the properties
SrcRoot == <<SrcName>>
DstRoot == <<DstName>>

AtOrUnder(root, p) == Len(p) >= Len(root) /\ SubSeq(p, 1, Len(root)) = root
Under(root, p) == Len(p) > Len(root) /\ AtOrUnder(root, p)
Rel(root, p) == SubSeq(p, Len(root) + 1, Len(p))
Range(sq) == {sq[i] : i \in DOMAIN sq}

\* The non-directory entries of the source tree.
SrcEntries(f) == {p \in DOMAIN f : Under(SrcRoot, p) /\ f[p].kind # "dir"}

\* A regular file named *.c or *.h.
IsRegularCSource(f, p) ==
    /\ f[p].kind = "file"
    /\ \E n \in 1..Len(basename(p)) :
          SubSeq(basename(p), n, Len(basename(p))) \in {<<".", "c">>, <<".", "h">>}

\* "Used": a regular C source whose access time is newer than its modification time.
Used(f, p) == IsRegularCSource(f, p) /\ f[p].atime > f[p].mtime

\* The last invocation placed p in the destination, at p's relative path.
InDestination(p) ==
    LET t == DstRoot \o Rel(SrcRoot, p)
    IN /\ \E i \in DOMAIN log : log[i].src = p /\ log[i].target = t
       /\ t \in DOMAIN fs
       /\ fs[t].kind = "file"
       /\ fs[t].content = pre[p].content

\* The order the walk of the source tree visits paths in.
VisitOrder(f) ==
    LET v == Visits(walk(f, SrcRoot, listRev))
    IN [i \in DOMAIN v |-> Append(v[i].root, v[i].f)]

IndexOf(sq, x) == CHOOSE i \in DOMAIN sq : sq[i] = x

Walked == lastOp = "run" /\ status \in {"ok", "failed"}
CollectDone == lastOp = "run" /\ status = "ok" /\ args.collect
CollectFailed == lastOp = "run" /\ status = "failed" /\ args.collect
PrepareDone == lastOp = "run" /\ status = "ok" /\ args.prepare
PrepareFailed == lastOp = "run" /\ status = "failed" /\ args.prepare

\* A tree after a preparation at instant t, as the documentation describes it.
Prepared(f, t) ==
    [p \in DOMAIN f |->
        IF Under(SrcRoot, p) /\ IsRegularCSource(f, p)
        THEN [f[p] EXCEPT !.atime = t - Offset, !.mtime = t]
        ELSE f[p]]

\* A tree whose preparation at instant t stopped at the path `stop` of the
\* visiting order: the files before it are prepared, the others are not.
PreparedBefore(f, order, stop, t) ==
    LET k == IndexOf(order, stop)
        done == {order[i] : i \in 1..(k - 1)}
    IN [p \in DOMAIN f |-> IF p \in done THEN Prepared(f, t)[p] ELSE f[p]]

\* The part of a filesystem at or under the destination root.
DstTree(f) == [p \in {q \in DOMAIN f : AtOrUnder(DstRoot, q)} |-> f[p]]

\* ------------------------------------------------------------------ C1
\* C1: after a completed collect, a file of the source tree is in the
\* destination (at its relative path, with its content) if and only if it is a
\* regular file named *.c or *.h whose access time was strictly greater than
\* its modification time.
C1_CopiedIffUsed ==
    CollectDone => \A p \in SrcEntries(pre) : InDestination(p) <=> Used(pre, p)

C3_CollectsWhatTheBuildRead ==
    (CollectDone /\ prepT >= 0) =>
        \A p \in SrcEntries(pre) :
            InDestination(p) <=> (p \in U /\ IsRegularCSource(pre, p))

\* ------------------------------------------------------------------ C4
\* C4: every copy collect makes lands at the destination root followed by the
\* file's path relative to the source root.
C4_SameRelativePath ==
    (Walked /\ args.collect) =>
        \A i \in DOMAIN log :
            /\ log[i].target = DstRoot \o Rel(SrcRoot, log[i].src)
            /\ isdir(fs, dirname(log[i].target))

\* ------------------------------------------------------------------ C5
\* C5 as stated: with both or neither of --prepare / --collect the tool prints
\* "Error: You must use either --collect or --prepare." and starts no walk.
C5_AsStated ==
    (lastOp = "run" /\ (args.prepare <=> args.collect)) =>
        /\ status = "usage"
        /\ out = <<"Error: ", "You must use either --collect or --prepare.">>
        /\ fs = pre

\* C5 amended: the line printed is "Error: You must use either --collect or
\* --prepare", without a full stop; no walk is started and the filesystem is
\* unchanged.
C5_ExactlyOneMode ==
    (lastOp = "run" /\ (args.prepare <=> args.collect)) =>
        /\ status = "usage"
        /\ out = <<"Error: ", "You must use either --collect or --prepare">>
        /\ log = <<>>
        /\ fs = pre

C5_Witness ==
    /\ lastOp = "run"
    /\ args = [prepare |-> TRUE, collect |-> TRUE, src |-> SrcName, dst |-> DstName]
    /\ status = "usage"
    /\ runs = 2
    /\ fs = pre

\* ------------------------------------------------------------------ C6
\* What the documentation says is printed when exactly one mode is chosen and
\* the paths do not pass validation; stop is the full stop the two usage
\* messages end with.
PathError(f, a, stop) ==
    IF a.prepare /\ a.src = NoArg
    THEN <<"Error: ", "You must use --src in conjunction with --prepare" \o stop>>
    ELSE IF a.collect /\ (a.src = NoArg \/ a.dst = NoArg)
    THEN <<"Error: ", "You must use --src and --dst in conjunction with --collect" \o stop>>
    ELSE IF <<a.src>> \notin DOMAIN f
    THEN <<"Error: ", "Directory ", a.src, " does not exist">>
    ELSE <<>>

WalkOnlyAfterValidation(stop) ==
    (lastOp = "run" /\ (args.prepare # args.collect)) =>
        /\ (Walked /\ args.prepare) => (args.src # NoArg /\ <<args.src>> \in DOMAIN pre)
        /\ (Walked /\ args.collect) =>
              (args.src # NoArg /\ args.dst # NoArg /\ <<args.src>> \in DOMAIN pre)
        /\ PathError(pre, args, stop) # <<>> =>
              /\ status = "usage"
              /\ out = PathError(pre, args, stop)
              /\ fs = pre

\* C6 as stated: the two usage messages end with a full stop.
C6_AsStated == WalkOnlyAfterValidation(".")

\* C6 amended: a walk starts only after the path validation has passed;
\* otherwise the matching message is printed, "You must use --src in
\* conjunction with --prepare" and "You must use --src and --dst in conjunction
\* with --collect" without a full stop, and the filesystem is unchanged.
C6_ValidatedBeforeWalk == WalkOnlyAfterValidation("")

C6_Witness ==
    /\ lastOp = "run"
    /\ args = [prepare |-> FALSE, collect |-> TRUE, src |-> MissingName, dst |-> DstName]
    /\ status = "usage"
    /\ DstRoot \notin DOMAIN fs

\* ------------------------------------------------------------------ C7
\* C7: a completed collect that follows a completed collect with the same
\* arguments, the source tree untouched in between, leaves the destination
\* tree (paths, contents, timestamps, modes) as the first one left it.
C7_CollectIdempotent ==
    [][(CollectDone /\ CollectDone' /\ args' = args /\ runs' = runs + 1)
          => DstTree(fs') = DstTree(fs)]_vars

C7_Witness ==
    /\ CollectDone
    /\ Len(log) >= 2
    /\ \A i \in DOMAIN log :
          /\ log[i].target \in DOMAIN pre
          /\ pre[log[i].target].content = pre[log[i].src].content
    /\ <<DstName, dir_a, dir_b, c_c>> \in DOMAIN pre

C9_PrepareRerun ==
    [][/\ PrepareFailed' =>
            /\ Len(out') = 3
            /\ SubSeq(out', 1, 2) = <<"Error: ", "Could not prepare: ">>
            /\ failPath' \in Range(VisitOrder(pre'))
            /\ fs' = PreparedBefore(pre', VisitOrder(pre'), failPath', clock)
       /\ (Walked /\ args.prepare /\ PrepareDone' /\ args'.src = args.src
              /\ runs' = runs + 1)
            => fs' = Prepared(pre, clock)]_vars

C9_Witness ==
    /\ PrepareDone
    /\ \E p, q \in SrcEntries(pre) :
          /\ IsRegularCSource(pre, p)
          /\ IsRegularCSource(pre, q)
          /\ pre[p].mtime = clock - 2
          /\ pre[p].atime = clock - 2 - Offset
          /\ pre[q].mtime # clock - 2

\* ------------------------------------------------------------------ C10
\* C10: a collect run, completed or aborted, leaves every path outside the
\* destination tree in place with its kind, content, mode and modification
\* time (the directory the destination root is created in aside), and every
\* path it creates is the destination root or below it; a prepare run creates
\* and deletes no path.
C10_WritesOnlyDestination ==
    /\ (Walked /\ args.collect) =>
          /\ \A p \in DOMAIN pre :
                (~AtOrUnder(DstRoot, p) /\ p # dirname(DstRoot)) =>
                    /\ p \in DOMAIN fs
                    /\ fs[p].kind = pre[p].kind
                    /\ fs[p].content = pre[p].content
                    /\ fs[p].mode = pre[p].mode
                    /\ fs[p].mtime = pre[p].mtime
          /\ \A p \in DOMAIN fs \ DOMAIN pre : AtOrUnder(DstRoot, p)
          /\ dirname(DstRoot) \in DOMAIN fs
    /\ (Walked /\ args.prepare) => DOMAIN fs = DOMAIN pre

C10_Witness ==
    /\ CollectFailed
    /\ DstRoot \notin DOMAIN pre
    /\ <<DstName, dir_a, dir_b>> \in DOMAIN fs

====
